---- MODULE Spec2Model ----
(***************************************************************************)
(* NoteComponent of knowte (src/app/components/note/note.component.ts):    *)
(* dirty tracking, debounced persistence of title and content, and the     *)
(* deferred close of a note window.                                        *)
(*                                                                         *)
(* One action per handler of the component: the queryParams subscription   *)
(* (load), the title input (onNotetitleChange), the quill 'text-change'    *)
(* handler, the three debounceTime subscriptions and the beforeunload      *)
(* handler.  Time is a discrete clock that advances in steps of TickMs;    *)
(* a debounce timer holds the milliseconds that remain, NoTimer if none.   *)
(*                                                                         *)
(* CollectionService (the document store) is not part of the component's   *)
(* file; its operations are modelled from sections 4.3 and 6 of the        *)
(* specification (Store* definitions).                                     *)
(*                                                                         *)
(* The two awaits inside the save handlers wait for a translation that is  *)
(* already loaded (ngOnInit awaited the first translation before it made   *)
(* any subscription), so their continuations run as microtasks before any  *)
(* other handler: each save handler is one atomic action.                  *)
(***************************************************************************)
EXTENDS Integers, Sequences, FiniteSets, TLC

\* ---- bounds of the model ------------------------------------------------
MaxEdits == 2
MaxCloses == 2
TickMs == 2500

\* ---- constants of the program -------------------------------------------
saveTimeoutMilliseconds == 5000
windowCloseTimeoutMilliseconds == 500

NoTimer == -1

\* ---- values -------------------------------------------------------------
\* A title is a sequence of characters; " " is whitespace.
StoredTitles == { <<"O">> }
TitleInputs == { <<"N">>, <<"N", " ">>, <<" ">> }
NoTitle == <<>>

\* A body is an abstract document; 0 is the empty editor.
Bodies == 0 .. 2
StoredBodies == { 0, 1 }

\* quill.getText() and JSON.stringify(quill.getContents()).
getText(b) == <<"text", b>>
getContents(b) == <<"json", b>>
\* JSON.parse of a stored structured content.
parseContents(j) == j[2]

RECURSIVE TrimLeft(_)
TrimLeft(s) ==
    IF s = <<>> THEN <<>>
    ELSE IF Head(s) = " " THEN TrimLeft(Tail(s)) ELSE s

RECURSIVE TrimRight(_)
TrimRight(s) ==
    IF s = <<>> THEN <<>>
    ELSE IF s[Len(s)] = " " THEN TrimRight(SubSeq(s, 1, Len(s) - 1)) ELSE s

Trim(s) == TrimRight(TrimLeft(s))

VARIABLES
    loaded,             \* the queryParams subscription has run
    isTitleChanged,
    isContentChanged,
    originalNoteTitle,
    noteTitle,
    quill,              \* the body in the editor
    titleTimer,         \* debounceTime of noteTitleChanged: ms left, or NoTimer
    titleValue,         \* the value that debounce will emit
    contentTimer,       \* debounceTime of noteTextChanged
    closeTimer,         \* debounceTime of saveChangedAndCloseNoteWindow
    closeRequested,     \* window.close() issued, its beforeunload not yet delivered
    windowClosed,       \* the window is gone
    store,              \* the document in the store
    calls,              \* the calls the last handler made, in order
    last,               \* the handler that ran last
    hist                \* history: counters and observations

vars == << loaded, isTitleChanged, isContentChanged, originalNoteTitle, noteTitle,
           quill, titleTimer, titleValue, contentTimer, closeTimer, closeRequested,
           windowClosed, store, calls, last, hist >>

\* ---- the calls a handler makes ------------------------------------------
Call(op, old, title, body, flag) ==
    [op |-> op, old |-> old, title |-> title, body |-> body, flag |-> flag]

CallSetOpen(flag) == Call("setOpen", NoTitle, NoTitle, 0, flag)
CallRename(old, new) == Call("renameDocument", old, new, 0, FALSE)
CallUpdateContent(b) == Call("updateContent", NoTitle, NoTitle, b, FALSE)
CallUpdateAll(t, b) == Call("updateAll", NoTitle, t, b, FALSE)
CallGetContent == Call("getDocumentContent", NoTitle, NoTitle, 0, FALSE)
\* dialog.open(ErrorDialogComponent, ...) with the error text of `kind`
CallReportError(kind) == Call("reportError", NoTitle, kind, 0, TRUE)
\* snackBarService.noteTitleCannotBeEmptyAsync()
CallSnackBar == Call("noteTitleCannotBeEmpty", NoTitle, NoTitle, 0, FALSE)
CallWindowClose == Call("window.close", NoTitle, NoTitle, 0, FALSE)
CallPreventDefault == Call("preventDefault", NoTitle, NoTitle, 0, FALSE)

Count(log, op) == Cardinality({ i \in 1 .. Len(log) : log[i].op = op })
Position(log, op) ==
    IF Count(log, op) = 0 THEN 0
    ELSE CHOOSE i \in 1 .. Len(log) :
            log[i].op = op /\ \A j \in 1 .. Len(log) : log[j].op = op => i <= j


\* ---- the document store (CollectionService) ------------------------------
NoContent == <<"none">>

StoredBody(st) == IF st.json = NoContent THEN 0 ELSE parseContents(st.json)

\* renameDocument(id, oldTitle, newTitle): the results it may give.
StoreRenameResults(newTitle) ==
    IF Trim(newTitle) = <<>>
    THEN { [operation |-> "Blank", newNoteTitle |-> NoTitle] }
    ELSE { [operation |-> "Success", newNoteTitle |-> t] : t \in { newTitle, Trim(newTitle) } }
         \cup { [operation |-> "Error", newNoteTitle |-> NoTitle],
                [operation |-> "Conflict", newNoteTitle |-> NoTitle] }

StoreAfterRename(st, res) ==
    IF res.operation = "Success" THEN [st EXCEPT !.title = res.newNoteTitle] ELSE st

\* updateContent / updateAll / getDocumentContent: Success or Failure.
StoreOperations == { "Success", "Error" }

StoreAfterUpdateContent(st, operation, text, json) ==
    IF operation = "Success" THEN [st EXCEPT !.text = text, !.json = json] ELSE st

StoreAfterUpdateAll(st, operation, title, text, json) ==
    IF operation = "Success"
    THEN [st EXCEPT !.title = title, !.text = text, !.json = json]
    ELSE st

StoreSetOpen(st, flag) == [st EXCEPT !.isOpen = flag]

\* ---- the states of the close interceptor ---------------------------------
Closed == windowClosed
InterceptedDirty == ~windowClosed /\ closeTimer # NoTimer
Flushing == ~windowClosed /\ closeTimer = NoTimer /\ closeRequested
Open == loaded /\ ~windowClosed /\ closeTimer = NoTimer /\ ~closeRequested

isAnyDirty == isTitleChanged \/ isContentChanged

\* ---- debounceTime --------------------------------------------------------
\* A new value restarts the timer and replaces the value to emit.
DebounceTimer(timer, delay) == delay
\* Faulty variant: the value of the first edit of a burst is kept (a throttle).
DebounceValue_KeepFirst(timer, pending, value) ==
    IF timer # NoTimer THEN pending ELSE value

DebounceValue(timer, pending, value) == value

Elapse(timer) ==
    IF timer = NoTimer THEN NoTimer
    ELSE IF timer > TickMs THEN timer - TickMs ELSE 0

\* ---- initial state -------------------------------------------------------
Init ==
    /\ loaded = FALSE
    /\ isTitleChanged = FALSE
    /\ isContentChanged = FALSE
    /\ originalNoteTitle = NoTitle
    /\ noteTitle = NoTitle
    /\ quill = 0
    /\ titleTimer = NoTimer
    /\ titleValue = NoTitle
    /\ contentTimer = NoTimer
    /\ closeTimer = NoTimer
    /\ closeRequested = FALSE
    /\ windowClosed = FALSE
    /\ \E t \in StoredTitles, b \in StoredBodies :
         store = [title |-> t, text |-> getText(b),
                  json |-> IF b = 0 THEN NoContent ELSE getContents(b),
                  isOpen |-> FALSE]
    /\ calls = << >>
    /\ last = "init"
    /\ hist = [edits |-> 0, closes |-> 0, updateAlls |-> 0, failed |-> FALSE,
               outcome |-> "none", typed |-> NoTitle, accepted |-> NoTitle,
               titleBursts |-> 0, titleSaves |-> 0,
               contentBursts |-> 0, contentSaves |-> 0, intercept |-> "none"]

\* ---- queryParams subscription and getNoteContentAsync --------------------
LoadedBody(operation, content, editor) ==
    IF operation = "Error" THEN editor
    ELSE IF content # NoContent THEN parseContents(content) ELSE editor

\* Faulty variant: setContents without 'silent' runs the text-change handler.
getNoteContentAsync_NotSilent(operation) ==
    /\ quill' = LoadedBody(operation, store.json, quill)
    /\ calls' = << CallSetOpen(TRUE), CallGetContent >>
                \o (IF operation = "Error" THEN << CallReportError("GetNoteContentError") >>
                    ELSE << >>)
    /\ isContentChanged' = (isContentChanged \/ quill' # quill)
    /\ UNCHANGED contentTimer

\* setContents(..., 'silent') emits no text-change.
getNoteContentAsync(operation) ==
    /\ quill' = LoadedBody(operation, store.json, quill)
    /\ calls' = << CallSetOpen(TRUE), CallGetContent >>
                \o (IF operation = "Error" THEN << CallReportError("GetNoteContentError") >>
                    ELSE << >>)
    /\ UNCHANGED << isContentChanged, contentTimer >>

Load ==
    /\ ~loaded
    /\ \E operation \in StoreOperations :
         /\ getNoteContentAsync(operation)
         /\ hist' = [hist EXCEPT !.failed = (operation = "Error"),
                                 !.outcome = operation,
                                 !.accepted = store.title]
    /\ loaded' = TRUE
    /\ store' = StoreSetOpen(store, TRUE)
    /\ originalNoteTitle' = store.title
    /\ noteTitle' = store.title
    /\ last' = "Load"
    /\ UNCHANGED << isTitleChanged, titleTimer, titleValue,
                    closeTimer, closeRequested, windowClosed >>

\* ---- edits ---------------------------------------------------------------
\* The title input is bound to noteTitle and calls onNotetitleChange.
onNotetitleChange(newNoteTitle) ==
    /\ isTitleChanged' = TRUE
    /\ titleTimer' = DebounceTimer(titleTimer, saveTimeoutMilliseconds)
    /\ titleValue' = DebounceValue(titleTimer, titleValue, newNoteTitle)

\* Faulty variant: one debounce shared by both channels, so a title edit also
\* restarts the content timer.
TitleEdit_SharedTimer ==
    /\ loaded /\ ~windowClosed
    /\ hist.edits < MaxEdits
    /\ \E newNoteTitle \in (StoredTitles \cup TitleInputs) \ { noteTitle } :
         /\ noteTitle' = newNoteTitle
         /\ onNotetitleChange(newNoteTitle)
         /\ hist' = [hist EXCEPT !.edits = @ + 1, !.typed = newNoteTitle,
                                 !.titleBursts = IF titleTimer = NoTimer THEN @ + 1 ELSE @]
    /\ contentTimer' = IF contentTimer = NoTimer THEN NoTimer ELSE saveTimeoutMilliseconds
    /\ calls' = << >>
    /\ last' = "TitleEdit"
    /\ UNCHANGED << loaded, isContentChanged, originalNoteTitle, quill,
                    closeTimer, closeRequested, windowClosed, store >>

TitleEdit ==
    /\ loaded /\ ~windowClosed
    /\ hist.edits < MaxEdits
    /\ \E newNoteTitle \in (StoredTitles \cup TitleInputs) \ { noteTitle } :
         /\ noteTitle' = newNoteTitle
         /\ onNotetitleChange(newNoteTitle)
         /\ hist' = [hist EXCEPT !.edits = @ + 1, !.typed = newNoteTitle,
                                 !.titleBursts = IF titleTimer = NoTimer THEN @ + 1 ELSE @]
    /\ calls' = << >>
    /\ last' = "TitleEdit"
    /\ UNCHANGED << loaded, isContentChanged, originalNoteTitle, quill, contentTimer,
                    closeTimer, closeRequested, windowClosed, store >>

\* quill.on('text-change')
onTextChange ==
    /\ isContentChanged' = TRUE
    /\ contentTimer' = DebounceTimer(contentTimer, saveTimeoutMilliseconds)

BodyEdit ==
    /\ loaded /\ ~windowClosed
    /\ hist.edits < MaxEdits
    /\ \E b \in Bodies \ { quill } : quill' = b
    /\ onTextChange
    /\ hist' = [hist EXCEPT !.edits = @ + 1,
                            !.contentBursts = IF contentTimer = NoTimer THEN @ + 1 ELSE @]
    /\ calls' = << >>
    /\ last' = "BodyEdit"
    /\ UNCHANGED << loaded, isTitleChanged, originalNoteTitle, noteTitle, titleTimer,
                    titleValue, closeTimer, closeRequested, windowClosed, store >>

\* ---- time ----------------------------------------------------------------
Tick ==
    /\ loaded /\ ~windowClosed
    /\ titleTimer # 0 /\ contentTimer # 0 /\ closeTimer # 0
    /\ titleTimer # NoTimer \/ contentTimer # NoTimer \/ closeTimer # NoTimer
    /\ titleTimer' = Elapse(titleTimer)
    /\ contentTimer' = Elapse(contentTimer)
    /\ closeTimer' = Elapse(closeTimer)
    /\ calls' = << >>
    /\ last' = "Tick"
    /\ UNCHANGED << loaded, isTitleChanged, isContentChanged, originalNoteTitle,
                    noteTitle, quill, titleValue, closeRequested, windowClosed,
                    store, hist >>

\* ---- debounced title save ------------------------------------------------
\* Faulty variant: the Blank branch leaves the typed title in place.
RenamedNoteTitle_NoBlankRevert(res, original, current) ==
    IF res.operation = "Error" THEN original
    ELSE IF res.operation = "Success" THEN res.newNoteTitle
    ELSE current

\* Faulty variant: the Error branch leaves the typed title in place.
RenamedNoteTitle_NoErrorRevert(res, original, current) ==
    IF res.operation = "Blank" THEN original
    ELSE IF res.operation = "Success" THEN res.newNoteTitle
    ELSE current

\* Faulty variant: a result that is not Success, Blank or Error reverts the
\* title as Error does.
RenamedNoteTitle_OtherAsError(res, original, current) ==
    IF res.operation = "Success" THEN res.newNoteTitle ELSE original

RenamedNoteTitle(res, original, current) ==
    IF res.operation = "Blank" THEN original
    ELSE IF res.operation = "Error" THEN original
    ELSE IF res.operation = "Success" THEN res.newNoteTitle
    ELSE current

\* Faulty variant: a successful rename forgets to record the accepted title.
RenamedOriginalTitle_Stale(res, original) == original

RenamedOriginalTitle(res, original) ==
    IF res.operation = "Success" THEN res.newNoteTitle ELSE original

RenameReports(res) ==
    IF res.operation = "Blank" THEN << CallSnackBar >>
    ELSE IF res.operation = "Error" THEN << CallReportError("RenameNoteError") >>
    ELSE << >>

saveNoteTitleAsync(newNoteTitle, res) ==
    /\ store' = StoreAfterRename(store, res)
    /\ noteTitle' = RenamedNoteTitle(res, originalNoteTitle, noteTitle)
    /\ originalNoteTitle' = RenamedOriginalTitle(res, originalNoteTitle)
    /\ calls' = << CallRename(originalNoteTitle, newNoteTitle) >> \o RenameReports(res)
    /\ UNCHANGED isTitleChanged

TitleFire ==
    /\ ~windowClosed
    /\ titleTimer = 0
    /\ \E res \in StoreRenameResults(titleValue) :
         /\ saveNoteTitleAsync(titleValue, res)
         /\ hist' = [hist EXCEPT
                       !.failed = @ \/ res.operation \in { "Error", "Conflict" },
                       !.accepted = IF res.operation = "Success" THEN res.newNoteTitle ELSE @,
                       !.outcome = res.operation,
                       !.titleSaves = @ + 1]
    /\ titleTimer' = NoTimer
    /\ last' = "TitleFire"
    /\ UNCHANGED << loaded, isContentChanged, quill, titleValue, contentTimer,
                    closeTimer, closeRequested, windowClosed >>

\* ---- debounced content save ----------------------------------------------
\* Faulty variant: a failed content update is not reported.
ContentReports_Silent(operation) == << >>

ContentReports(operation) ==
    IF operation = "Error" THEN << CallReportError("UpdateNoteContentError") >> ELSE << >>

saveNoteContentAsync(operation) ==
    /\ store' = StoreAfterUpdateContent(store, operation, getText(quill), getContents(quill))
    /\ calls' = << CallUpdateContent(quill) >> \o ContentReports(operation)
    /\ UNCHANGED << quill, isContentChanged >>

ContentFire ==
    /\ ~windowClosed
    /\ contentTimer = 0
    /\ \E operation \in StoreOperations :
         /\ saveNoteContentAsync(operation)
         /\ hist' = [hist EXCEPT !.failed = @ \/ operation = "Error",
                                 !.outcome = operation,
                                 !.contentSaves = @ + 1]
    /\ contentTimer' = NoTimer
    /\ last' = "ContentFire"
    /\ UNCHANGED << loaded, isTitleChanged, originalNoteTitle, noteTitle, titleTimer,
                    titleValue, closeTimer, closeRequested, windowClosed >>

\* ---- close ---------------------------------------------------------------
InterceptKind ==
    IF hist.intercept # "none" \/ ~Open THEN hist.intercept
    ELSE IF isTitleChanged /\ ~isContentChanged THEN "titleOnly"
    ELSE IF isAnyDirty THEN "other"
    ELSE "none"

\* Faulty variant: the clean branch forgets setNoteIsOpen(noteId, false).
beforeunloadHandler_NoSetOpen ==
    IF isTitleChanged \/ isContentChanged
    THEN /\ isTitleChanged' = FALSE
         /\ isContentChanged' = FALSE
         /\ calls' = << CallPreventDefault >>
         /\ closeTimer' = DebounceTimer(closeTimer, windowCloseTimeoutMilliseconds)
         /\ windowClosed' = FALSE
         /\ UNCHANGED store
    ELSE /\ calls' = << >>
         /\ windowClosed' = TRUE
         /\ UNCHANGED << store, isTitleChanged, isContentChanged, closeTimer >>

beforeunloadHandler ==
    IF isTitleChanged \/ isContentChanged
    THEN /\ isTitleChanged' = FALSE
         /\ isContentChanged' = FALSE
         /\ calls' = << CallPreventDefault >>
         /\ closeTimer' = DebounceTimer(closeTimer, windowCloseTimeoutMilliseconds)
         /\ windowClosed' = FALSE
         /\ UNCHANGED store
    ELSE /\ store' = StoreSetOpen(store, FALSE)
         /\ calls' = << CallSetOpen(FALSE) >>
         /\ windowClosed' = TRUE
         /\ UNCHANGED << isTitleChanged, isContentChanged, closeTimer >>

\* The user (or the host) asks the window to close.
UserClose ==
    /\ loaded /\ ~windowClosed
    /\ hist.closes < MaxCloses
    /\ beforeunloadHandler
    /\ hist' = [hist EXCEPT !.closes = @ + 1, !.intercept = InterceptKind]
    /\ last' = "UserClose"
    /\ UNCHANGED << loaded, originalNoteTitle, noteTitle, quill, titleTimer, titleValue,
                    contentTimer, closeRequested >>

\* The beforeunload of the window.close() that the close subscription issued.
RealClose ==
    /\ ~windowClosed
    /\ closeRequested
    /\ beforeunloadHandler
    /\ closeRequested' = FALSE
    /\ last' = "RealClose"
    /\ UNCHANGED << loaded, originalNoteTitle, noteTitle, quill, titleTimer, titleValue,
                    contentTimer, hist >>

\* The result of updateNote is not looked at.
saveNoteAll(st, operation) ==
    StoreAfterUpdateAll(st, operation, noteTitle, getText(quill), getContents(quill))

\* Faulty variant: window.close() is asked for before the flush.
CloseCalls_CloseFirst(title, body) ==
    << CallSetOpen(FALSE), CallWindowClose, CallUpdateAll(title, body) >>

\* The calls of the close subscription, in the order of lines 112-116.
CloseCalls(title, body) ==
    << CallSetOpen(FALSE), CallUpdateAll(title, body), CallWindowClose >>

\* Faulty variant: the window is closed only when the flush succeeded.
CloseFire_StopOnFailure ==
    /\ ~windowClosed
    /\ closeTimer = 0
    /\ \E operation \in StoreOperations :
         /\ store' = saveNoteAll(StoreSetOpen(store, FALSE), operation)
         /\ hist' = [hist EXCEPT !.failed = @ \/ operation = "Error",
                                 !.outcome = operation,
                                 !.updateAlls = @ + 1]
         /\ closeRequested' = (closeRequested \/ operation = "Success")
    /\ calls' = << CallSetOpen(FALSE), CallUpdateAll(noteTitle, quill), CallWindowClose >>
    /\ closeTimer' = NoTimer
    /\ last' = "CloseFire"
    /\ UNCHANGED << loaded, isTitleChanged, isContentChanged, originalNoteTitle, noteTitle,
                    quill, titleTimer, titleValue, contentTimer, windowClosed >>

\* saveChangedAndCloseNoteWindow subscription
CloseFire ==
    /\ ~windowClosed
    /\ closeTimer = 0
    /\ \E operation \in StoreOperations :
         /\ store' = saveNoteAll(StoreSetOpen(store, FALSE), operation)
         /\ hist' = [hist EXCEPT !.failed = @ \/ operation = "Error",
                                 !.outcome = operation,
                                 !.updateAlls = @ + 1]
    /\ calls' = CloseCalls(noteTitle, quill)
    /\ closeTimer' = NoTimer
    /\ closeRequested' = TRUE
    /\ last' = "CloseFire"
    /\ UNCHANGED << loaded, isTitleChanged, isContentChanged, originalNoteTitle, noteTitle,
                    quill, titleTimer, titleValue, contentTimer, windowClosed >>

Next ==
    \/ Load
    \/ TitleEdit
    \/ BodyEdit
    \/ Tick
    \/ TitleFire
    \/ ContentFire
    \/ UserClose
    \/ RealClose
    \/ CloseFire

Spec == Init /\ [][Next]_vars


\* Time passes, an elapsed debounce timer emits, and the beforeunload of a
\* window.close() is delivered: while one of these is ready, the event loop of
\* the window eventually runs one.  Edits and the user's close signals are
\* under no obligation to happen.
Progress ==
    \/ Tick
    \/ TitleFire
    \/ ContentFire
    \/ CloseFire
    \/ RealClose

\* The behaviours in which no edit arrives once a dirty close was intercepted.
QuietNext ==
    \/ Load
    \/ (hist.intercept = "none" /\ TitleEdit)
    \/ (hist.intercept = "none" /\ BodyEdit)
    \/ Tick
    \/ TitleFire
    \/ ContentFire
    \/ UserClose
    \/ RealClose
    \/ CloseFire

FairSpec == Init /\ [][QuietNext]_vars /\ WF_vars(Progress)

\* ==== claims ==============================================================

\* C1: whenever the view is Closed and no store call has failed, the title and
\* the body persisted in the store equal the in-memory title and body.
C1_NoEditLostOnClose ==
    (windowClosed /\ ~hist.failed) =>
        /\ store.title = noteTitle
        /\ store.text = getText(quill)
        /\ StoredBody(store) = quill

\* C2: a close signal received in InterceptedDirty or Flushing is a no-op: no
\* setOpen and no updateAll call, the view does not close, and neither the
\* pending flush nor the pending close is rescheduled.
C2_CloseSignalWhileInterceptedIsNoOp ==
    [][ ((InterceptedDirty \/ Flushing) /\ last' = "UserClose") =>
            /\ Count(calls', "setOpen") = 0
            /\ Count(calls', "updateAll") = 0
            /\ ~windowClosed'
            /\ closeTimer' = closeTimer
            /\ closeRequested' = closeRequested ]_vars

\* C3: after a close signal delivered in Open with only the title dirty, the
\* view reaches Closed with exactly one updateAll call made in total.
C3_ExactlyOneUpdateAll ==
    (windowClosed /\ hist.intercept = "titleOnly") => hist.updateAlls = 1

\* C4: a close signal delivered in Open with both dirty flags false calls
\* setOpen(id, false) and nothing else, closes the view in that step, makes no
\* updateAll call and schedules no flush.
C4_CleanCloseInOpen ==
    [][ (Open /\ ~isAnyDirty /\ last' = "UserClose") =>
            /\ windowClosed'
            /\ calls' = << CallSetOpen(FALSE) >>
            /\ ~store'.isOpen
            /\ closeTimer' = NoTimer
            /\ ~closeRequested'
            /\ hist'.updateAlls = hist.updateAlls ]_vars

C4_Witness ==
    /\ last = "UserClose" /\ windowClosed
    /\ hist.closes = 1 /\ hist.intercept = "none"
    /\ hist.updateAlls = 0 /\ ~store.isOpen

\* C5: an edit makes no save call and (re)starts its channel's quiet period;
\* save calls are made only when a debounce timer fires, exactly one per
\* firing, carrying the last title typed (resp. the body at that moment); so
\* the save calls of a channel number exactly its completed bursts.
C5_DebounceCoalescing ==
    [][ /\ (last' \in { "TitleEdit", "BodyEdit" } => calls' = << >>)
        /\ (last' = "TitleEdit" => titleTimer' = saveTimeoutMilliseconds)
        /\ (last' = "BodyEdit" => contentTimer' = saveTimeoutMilliseconds)
        /\ (Count(calls', "renameDocument") > 0 => last' = "TitleFire")
        /\ (Count(calls', "updateContent") > 0 => last' = "ContentFire")
        /\ (last' = "TitleFire" =>
                /\ Count(calls', "renameDocument") = 1
                /\ calls'[1].op = "renameDocument"
                /\ calls'[1].title = hist.typed
                /\ titleTimer' = NoTimer)
        /\ (last' = "ContentFire" =>
                /\ Count(calls', "updateContent") = 1
                /\ calls'[1].op = "updateContent"
                /\ calls'[1].body = quill
                /\ contentTimer' = NoTimer)
        /\ hist'.titleBursts =
              hist'.titleSaves + (IF titleTimer' # NoTimer THEN 1 ELSE 0)
        /\ hist'.contentBursts =
              hist'.contentSaves + (IF contentTimer' # NoTimer THEN 1 ELSE 0) ]_vars

\* A burst of two title edits has been saved by one rename call.
C5_Witness ==
    /\ last = "TitleFire"
    /\ hist.edits = 2 /\ hist.closes = 0 /\ ~isContentChanged
    /\ hist.titleBursts = 1 /\ hist.titleSaves = 1
    /\ calls[1] = CallRename(<<"O">>, hist.typed)

\* C6: after a debounced save attempt the channel's dirty flag is false until
\* the next edit of that channel.
C6_DirtyClearedAfterSave ==
    /\ (last = "TitleFire" => ~isTitleChanged)
    /\ (last = "ContentFire" => ~isContentChanged)

C8_RenameFailureReverts ==
    [][ (last' = "TitleFire" /\ hist'.outcome = "Error") =>
            /\ noteTitle' = originalNoteTitle
            /\ originalNoteTitle' = originalNoteTitle
            /\ Count(calls', "reportError") = 1
            /\ Count(calls', "noteTitleCannotBeEmpty") = 0 ]_vars

C8_Witness ==
    /\ last = "TitleFire" /\ hist.outcome = "Error"
    /\ hist.typed = << "N" >>
    /\ noteTitle = << "O" >> /\ originalNoteTitle = << "O" >>
    /\ calls = << CallRename(<<"O">>, <<"N">>), CallReportError("RenameNoteError") >>

\* C9: a Failure of updateContent in the debounced content save makes exactly
\* one reportError call, of the content-update failure, and leaves the body
\* in the editor as it was.
C9_ContentFailureReported ==
    [][ (last' = "ContentFire" /\ hist'.outcome = "Error") =>
            /\ calls' = << CallUpdateContent(quill),
                           CallReportError("UpdateNoteContentError") >>
            /\ quill' = quill
            /\ store' = store ]_vars

C9_Witness ==
    /\ last = "ContentFire" /\ hist.outcome = "Error"
    /\ quill = 2 /\ StoredBody(store) # quill
    /\ Count(calls, "reportError") = 1

\* C10: a title edit made after a title save has fired starts a timer of its
\* own, and when that timer fires a separate rename call is made whose new
\* title is the last title typed and whose old title is the title the last
\* successful rename accepted (the loaded title if none succeeded).
C10_SecondEditRenamed ==
    [][ /\ (last' = "TitleEdit" /\ titleTimer = NoTimer =>
                /\ titleTimer' = saveTimeoutMilliseconds
                /\ titleValue' = hist'.typed)
        /\ (last' = "TitleFire" =>
                calls'[1] = CallRename(hist.accepted, hist.typed)) ]_vars

\* The second of two renames carries the title the first one accepted.
C10_Witness ==
    /\ last = "TitleFire" /\ hist.titleSaves = 2
    /\ calls[1] = CallRename(<<"N">>, <<"N", " ">>)
    /\ originalNoteTitle = <<"N", " ">>


\* C11: a title edit leaves the content channel's pending timer (presence and
\* time left) and the content-dirty flag as they were; a body edit leaves the
\* title channel's pending timer, its pending value and the title-dirty flag
\* as they were.
C11_ChannelsIndependent ==
    [][ /\ (last' = "TitleEdit" =>
                /\ contentTimer' = contentTimer
                /\ isContentChanged' = isContentChanged)
        /\ (last' = "BodyEdit" =>
                /\ titleTimer' = titleTimer
                /\ titleValue' = titleValue
                /\ isTitleChanged' = isTitleChanged) ]_vars

\* A title edit made while the content timer is half way through its quiet
\* period.
C11_Witness ==
    /\ last = "TitleEdit"
    /\ contentTimer # NoTimer /\ contentTimer < saveTimeoutMilliseconds
    /\ titleTimer = saveTimeoutMilliseconds
    /\ isContentChanged /\ isTitleChanged


\* C12: once a close signal was delivered in Open with a dirty flag, the view
\* eventually reaches Closed, whether the flush's updateAll succeeds or fails
\* (under FairSpec: fair firing of the timers, no edit after the interception).
C12_DirtyCloseReachesClosed ==
    (hist.intercept # "none") ~> windowClosed

\* The view closed although its only flush failed.
C12_Witness ==
    /\ windowClosed /\ hist.intercept # "none"
    /\ hist.updateAlls = 1 /\ hist.outcome = "Error"
    /\ last = "RealClose"


\* C13: a Failure of updateAll in the close-triggered flush makes exactly one
\* reportError call.
C13_FlushFailureReported ==
    [][ (last' = "CloseFire" /\ hist'.outcome = "Error") =>
            Count(calls', "reportError") = 1 ]_vars

\* C14 (as claimed): when the grace delay has elapsed, updateAll is called
\* first, then setOpen(id, false), then the real close; setOpen(id, false) is
\* not called before updateAll.
C14_FlushThenSetOpenThenClose ==
    [][ last' = "CloseFire" =>
            /\ Count(calls', "updateAll") = 1
            /\ Position(calls', "updateAll") < Position(calls', "setOpen")
            /\ Position(calls', "setOpen") < Position(calls', "window.close") ]_vars

\* C14 (amended): when the grace delay has elapsed the handler calls
\* setOpen(id, false), then updateAll with the current title and body, then
\* asks for the real close, in this order and in one step; the real close is
\* never asked for before updateAll.
C14_SetOpenThenFlushThenClose ==
    [][ /\ (last' = "CloseFire" =>
                /\ calls' = << CallSetOpen(FALSE), CallUpdateAll(noteTitle, quill),
                               CallWindowClose >>
                /\ closeRequested')
        /\ (Count(calls', "window.close") > 0 =>
                /\ Count(calls', "updateAll") = 1
                /\ Position(calls', "updateAll") < Position(calls', "window.close")) ]_vars

C14_Witness ==
    /\ last = "CloseFire" /\ closeRequested /\ ~windowClosed
    /\ hist.outcome = "Success"
    /\ Position(calls, "setOpen") = 1 /\ Position(calls, "updateAll") = 2
    /\ store.title = noteTitle /\ noteTitle = << "N" >> /\ ~store.isOpen


\* C15: once a dirty close has been intercepted, a title or content debounce
\* timer that fires before Closed is a no-op: it makes no call and changes
\* neither the local title nor the last-known-good title nor the store.
C15_TimersAreNoOpsDuringClose ==
    [][ ((InterceptedDirty \/ Flushing) /\ last' \in { "TitleFire", "ContentFire" }) =>
            /\ Count(calls', "renameDocument") = 0
            /\ Count(calls', "updateContent") = 0
            /\ noteTitle' = noteTitle
            /\ originalNoteTitle' = originalNoteTitle
            /\ store' = store ]_vars

C17_DirtyOnlyByEdit ==
    [][ /\ (last' = "Load" => ~isTitleChanged' /\ ~isContentChanged')
        /\ (~isTitleChanged /\ isTitleChanged' => last' = "TitleEdit")
        /\ (~isContentChanged /\ isContentChanged' => last' = "BodyEdit") ]_vars

\* A stored body has been loaded into the editor and both flags are false.
C17_Witness ==
    /\ last = "Load" /\ loaded
    /\ quill = 1 /\ StoredBody(store) = 1
    /\ ~isTitleChanged /\ ~isContentChanged

\* C18: the store's isOpen marker is false in every Closed state, and
\* setOpen(id, true) is called by the load only, never after it.
C18_ClosedIsNotOpen ==
    [][ /\ (windowClosed' => ~store'.isOpen)
        /\ (windowClosed' /\ ~windowClosed => CallSetOpen(FALSE) = calls'[Len(calls')])
        /\ (loaded => \A i \in 1 .. Len(calls') : calls'[i] # CallSetOpen(TRUE)) ]_vars

\* The view closed after a flush: setOpen(id, false) was called by the close
\* subscription and again by the close that went through.
C18_Witness ==
    /\ windowClosed /\ last = "RealClose"
    /\ hist.updateAlls = 1 /\ hist.closes = 1
    /\ ~store.isOpen /\ calls = << CallSetOpen(FALSE) >>

\* C19: while the view is not Closed, the last-known-good title equals the
\* title persisted in the store, and every rename call passes the store's
\* current title as old title.
C19_OriginalTitleIsStoredTitle ==
    (loaded /\ ~windowClosed) => originalNoteTitle = store.title

\* C20: no title that is empty after trimming whitespace is ever stored.
C20_StoredTitleNeverBlank ==
    Trim(store.title) # << >>

====
